---- MODULE Spec2Model ----
(***************************************************************************)
(* The trace/debug control protocol of r64emu's debugger                   *)
(* (emu/src/dbg.rs): DebuggerUI::new, DebuggerUI::trace and                *)
(* DebuggerUI::render, together with the collaborators they call.          *)
(*                                                                         *)
(* The coordinator (DebuggerUI) is translated from emu/src/dbg.rs.  The    *)
(* tracer (Debugger / Tracer / TraceEvent, "mod tracer"), the UI context   *)
(* (UiCtx / UiCommand, "mod uictx") and the emulation core behind the      *)
(* DebuggerModel trait are modules of the repository whose files are not   *)
(* part of the sources at hand; they are modelled from the design          *)
(* document (sections 3, 4.1 and 6) and marked as such where defined.      *)
(*                                                                         *)
(* Time is kept as the number of milliseconds elapsed since last_render    *)
(* (self.last_render.elapsed()), which is the only way the code reads the  *)
(* clock; it saturates at MaxElapsed, above every threshold the code       *)
(* compares it with.  Event timestamps are display-only and are left out.  *)
(***************************************************************************)
EXTENDS Integers, Sequences, FiniteSets, TLC

\* ------------------------------------------------------------------ bounds
NAddr      == 2   \* instruction/data addresses 0 .. NAddr-1 of each CPU
FrameLen   == 2   \* instructions in one frame-granularity unit of work
MaxBps     == 1   \* regular breakpoint entries the UI keeps at a time
TickMs     == 50  \* granularity of the wall clock
MaxElapsed == 60  \* saturation of the elapsed time since the last render

\* ------------------------------------------------------- program constants
PollMs == 50      \* Duration::from_millis(50), the poll deadline
IdleMs == 16      \* Duration::from_millis(16), the idle pacing while paused

Cpus  == {"CPU0", "CPU1"}
Addrs == 0 .. (NAddr - 1)

Min(a, b) == IF a < b THEN a ELSE b
Max(a, b) == IF a > b THEN a ELSE b

\* ----------------------------------------------------------- TraceEvent
\* The signal variants; a value is a record with one shape for every variant.
Ev(t, c, a, m) == [type |-> t, cpu |-> c, addr |-> a, msg |-> m]
NoEvent                 == Ev("None", "-", 0, "")
Poll                    == Ev("Poll", "-", 0, "")
Paused                  == Ev("Paused", "-", 0, "")
Stepped                 == Ev("Stepped", "-", 0, "")
Breakpoint(c, a)        == Ev("Breakpoint", c, a, "")
BreakpointOneShot(c, a) == Ev("BreakpointOneShot", c, a, "")
WatchpointRead(c, a)    == Ev("WatchpointRead", c, a, "")
WatchpointWrite(c, a)   == Ev("WatchpointWrite", c, a, "")
GenericBreak(m)         == Ev("GenericBreak", "-", 0, m)

PausingTypes ==
    {"Breakpoint", "WatchpointRead", "WatchpointWrite", "BreakpointOneShot", "GenericBreak"}

\* ------------------------------------------------------------- UiCommand
Cmd(t, f, c, a) == [type |-> t, flag |-> f, cpu |-> c, addr |-> a]
NoCommand                  == Cmd("None", FALSE, "-", 0)
CmdPause(p)                == Cmd("Pause", p, "-", 0)
CmdBreakpointOneShot(c, a) == Cmd("BreakpointOneShot", FALSE, c, a)
CmdCpuStep(c)              == Cmd("CpuStep", FALSE, c, 0)

Commands ==
    {CmdPause(p) : p \in BOOLEAN}
        \cup {CmdBreakpointOneShot(c, a) : c \in Cpus, a \in Addrs}
        \cup {CmdCpuStep(c) : c \in Cpus}

VARIABLES
    paused,         \* DebuggerUI.paused
    elapsed,        \* DebuggerUI.last_render.elapsed(), in ms, saturating
    event,          \* UiCtx.event (NoEvent for None)
    command,        \* UiCtx.command (NoCommand for None)
    flash_msgs,     \* UiCtx: the flash messages on screen
    bps,            \* Debugger: the regular breakpoint entries
    oneshot,        \* Debugger: the armed one-shot breakpoints, (cpu, addr) pairs
    next_poll,      \* Debugger: the poll deadline, in ms after last_render
    screen,         \* the driver's frame buffer: instructions of the unit of work it holds
    checks,         \* core: checkpoint calls made for the unit of work in progress
    cur,            \* core: the instruction just executed, awaiting its checkpoint
    tex_screen,     \* DebuggerUI.tex_screen: instructions of the frame it shows
    ret,            \* what the driver's latest call of trace() returned
    phase           \* where the single thread of control is

vars == <<paused, elapsed, event, command, flash_msgs, bps, oneshot, next_poll,
          screen, checks, cur, tex_screen, ret, phase>>

\* --------------------------------------------------------------- the clock
\* The clock's origin is the last render pass: last_render is instant 0 and
\* Instant::now() is the elapsed time.
last_render == 0
Now == last_render + elapsed

\* ------------------------------------------- tracer (Debugger and Tracer)
\* Modelled from the design document: the breakpoint table and the checkpoint.
BpEntry(c, a, en) == [cpu |-> c, addr |-> a, enabled |-> en]
BpKeys(table) == {<<e.cpu, e.addr>> : e \in table}

\* The watchpoint table is owned by a configuration surface outside the
\* debugger and is read-only here.
Watchpoints == {<<"CPU0", 1, "read">>, <<"CPU1", 0, "write">>}

\* A memory access reported by the core: none, or a read or a write of a data
\* address.
DataAddrs == {0, 1}
NoAccess == [kind |-> "none", addr |-> 0]
Accesses == {NoAccess} \cup [kind : {"read", "write"}, addr : DataAddrs]

\* Debugger::set_breakpoint_oneshot(cpu, Some(pc)): the CPU's one-shot slot is
\* overwritten.
SetBreakpointOneshot(table, c, a) ==
    {e \in table : e[1] # c} \cup {<<c, a>>}

\* Debugger::disable_breakpoint_oneshot(): every CPU's slot is emptied.
DisableBreakpointOneshot(table) == {}

\* Debugger::set_poll_event(deadline)
SetPollEvent(deadline) == deadline

\* The checkpoint with the poll deadline tested first.
Checkpoint_PollFirst(c, a, acc, now, table, shots, deadline) ==
    IF now >= deadline THEN Poll
    ELSE IF BpEntry(c, a, TRUE) \in table THEN Breakpoint(c, a)
    ELSE IF <<c, a>> \in shots THEN BreakpointOneShot(c, a)
    ELSE IF acc.kind = "read" /\ <<c, acc.addr, "read">> \in Watchpoints
        THEN WatchpointRead(c, acc.addr)
    ELSE IF acc.kind = "write" /\ <<c, acc.addr, "write">> \in Watchpoints
        THEN WatchpointWrite(c, acc.addr)
    ELSE NoEvent

\* The checkpoint firing on a disabled entry too.
Checkpoint_IgnoresEnabled(c, a, acc, now, table, shots, deadline) ==
    IF <<c, a>> \in BpKeys(table) THEN Breakpoint(c, a)
    ELSE IF <<c, a>> \in shots THEN BreakpointOneShot(c, a)
    ELSE IF acc.kind = "read" /\ <<c, acc.addr, "read">> \in Watchpoints
        THEN WatchpointRead(c, acc.addr)
    ELSE IF acc.kind = "write" /\ <<c, acc.addr, "write">> \in Watchpoints
        THEN WatchpointWrite(c, acc.addr)
    ELSE IF now >= deadline THEN Poll
    ELSE NoEvent

\* One checkpoint of the Tracer, for the instruction boundary of `c` at `a`
\* after memory access `acc`, at instant `now`: breakpoint, then watchpoint,
\* then poll deadline.
Checkpoint(c, a, acc, now, table, shots, deadline) ==
    IF BpEntry(c, a, TRUE) \in table THEN Breakpoint(c, a)
    ELSE IF <<c, a>> \in shots THEN BreakpointOneShot(c, a)
    ELSE IF acc.kind = "read" /\ <<c, acc.addr, "read">> \in Watchpoints
        THEN WatchpointRead(c, acc.addr)
    ELSE IF acc.kind = "write" /\ <<c, acc.addr, "write">> \in Watchpoints
        THEN WatchpointWrite(c, acc.addr)
    ELSE IF now >= deadline THEN Poll
    ELSE NoEvent

\* ------------------------------------------------------------- UiCtx
AddFlashMsg(msgs, m) == Append(msgs, m)

\* ---------------------------------------------------- the emulation core
\* Modelled from the design document: the core executes one instruction of some
\* CPU, which lands that CPU at some address and may access memory, and calls
\* the checkpoint at the instruction boundary.  The program is arbitrary.
NoInsn == [cpu |-> "-", pc |-> 0, acc |-> NoAccess]
Insns == [cpu : Cpus, pc : Addrs, acc : Accesses]

\* What a single step may return; render ignores it.
StepResults ==
    {NoEvent, GenericBreak("assert")} \cup {Breakpoint(c, a) : c \in Cpus, a \in Addrs}

\* --------------------------------------------------------- DebuggerUI::new
\* A session that starts Running.
InitialPaused_Running == FALSE

\* paused: true
InitialPaused == TRUE

Init ==
    /\ paused = InitialPaused
    /\ elapsed = 0
    /\ event = Paused
    /\ command = NoCommand
    /\ flash_msgs = <<>>
    /\ bps = {}
    /\ oneshot = {}
    /\ next_poll = 0
    /\ screen = 0
    /\ checks = 0
    /\ cur = NoInsn
    /\ tex_screen = 0
    /\ ret = "none"
    /\ phase = "idle"

\* ------------------------------------------------------- DebuggerUI::trace
\* The deadline taken from the idle pacing interval instead.
TraceUntil_Idle == last_render + IdleMs

\* The deadline requested for the frame invocation.
TraceUntil == last_render + PollMs

\* Fresh, empty buffers handed to trace_frame.
FrameBuffers_Fresh(buf) == 0

\* The buffers handed to trace_frame: the caller's own.
FrameBuffers(buf) == buf

\* The signal recorded without its payload.
EventAfter_NoPayload(sig) == Ev(sig.type, "-", 0, "")

\* uictx.event = Some((event.clone(), now))
EventAfter(sig) == sig

\* trace() reporting a frame on Poll.
ReturnAfter_TrueOnPoll(sig) == IF sig.type = "Poll" THEN "true" ELSE "false"

\* The value trace() returns from each arm of the match on the signal.
ReturnAfter(sig) == "false"

\* A Breakpoint signal that does not pause.
PausedAfter_NotOnBreakpoint(sig, p) ==
    IF sig.type \in {"Poll", "Breakpoint"} THEN p ELSE TRUE

\* A GenericBreak signal that does not pause.
PausedAfter_NotOnGenericBreak(sig, p) ==
    IF sig.type \in {"Poll", "GenericBreak"} THEN p ELSE TRUE

\* Every signal pauses, Poll included.
PausedAfter_Always(sig, p) == TRUE

\* The effect of an Err(event) result on each field.
PausedAfter(sig, p) == IF sig.type = "Poll" THEN p ELSE TRUE

\* The one-shot slots cleared only by the one-shot's own signal.
OneshotAfter_OwnSignalOnly(sig, shots) ==
    IF sig.type = "BreakpointOneShot" THEN DisableBreakpointOneshot(shots) ELSE shots

\* The one-shot slots cleared by every signal, Poll included.
OneshotAfter_Always(sig, shots) == DisableBreakpointOneshot(shots)

OneshotAfter(sig, shots) ==
    IF sig.type = "Poll" THEN shots ELSE DisableBreakpointOneshot(shots)

\* A notice for the breakpoint signals too.
FlashAfter_OnBreakpointToo(sig, msgs) ==
    IF sig.type = "Poll" THEN msgs
    ELSE AddFlashMsg(msgs, <<"Emulation stopped:", sig.msg>>)

\* The notice enqueued by the arm of each signal.
FlashAfter(sig, msgs) ==
    CASE sig.type = "WatchpointRead" ->
            AddFlashMsg(msgs, <<"Watchpoint (read) hit on", sig.cpu>>)
      [] sig.type = "WatchpointWrite" ->
            AddFlashMsg(msgs, <<"Watchpoint (write) hit on", sig.cpu>>)
      [] sig.type = "GenericBreak" ->
            AddFlashMsg(msgs, <<"Emulation stopped:", sig.msg>>)
      [] OTHER -> msgs

\* trace() invoking the unit of work whatever the run state.
TraceRuns_Always(p) == TRUE

\* trace(): the unit of work is invoked unless self.paused.
TraceRuns(p) == ~p

\* trace(), paused: sleep until 16ms have passed since the last render, return false.
TracePaused ==
    /\ phase = "idle"
    /\ ~TraceRuns(paused)
    /\ elapsed' = Max(elapsed, IdleMs)
    /\ ret' = "false"
    /\ UNCHANGED <<paused, event, command, flash_msgs, bps, oneshot, next_poll,
                   screen, checks, cur, tex_screen, phase>>

\* trace(), running: set the poll deadline and invoke trace_frame.
TraceStart ==
    /\ phase = "idle"
    /\ TraceRuns(paused)
    /\ next_poll' = SetPollEvent(TraceUntil)
    /\ screen' = FrameBuffers(screen)
    /\ ret' = "none"
    /\ phase' = "frame"
    /\ UNCHANGED <<paused, elapsed, event, command, flash_msgs, bps, oneshot,
                   checks, cur, tex_screen>>

\* trace(), the Err(event) arm of the match on trace_frame's result.
TraceErr(sig) ==
    /\ event' = EventAfter(sig)
    /\ paused' = PausedAfter(sig, paused)
    /\ oneshot' = OneshotAfter(sig, oneshot)
    /\ flash_msgs' = FlashAfter(sig, flash_msgs)
    /\ ret' = ReturnAfter(sig)
    /\ phase' = "idle"
    /\ UNCHANGED <<elapsed, command, bps, next_poll, tex_screen>>

\* trace(), the catch-all arm of the match on the signal: the signal has been
\* recorded and unimplemented!() panics; trace() does not return.  The arm is
\* taken for the variants with no arm of their own, Paused and Stepped, which
\* trace_frame's result type lets the core return.
TraceUnimplemented ==
    /\ phase = "frame"
    /\ screen < FrameLen
    /\ \E sig \in {Paused, Stepped} : event' = EventAfter(sig)
    /\ phase' = "panic"
    /\ UNCHANGED <<paused, elapsed, command, flash_msgs, bps, oneshot, next_poll,
                   screen, checks, cur, tex_screen, ret>>

\* trace_frame: the core executes the next instruction of the unit of work.
CoreExec ==
    /\ phase = "frame"
    /\ screen < FrameLen
    /\ cur' \in Insns
    /\ screen' = screen + 1
    /\ phase' = "check"
    /\ UNCHANGED <<paused, elapsed, event, command, flash_msgs, bps, oneshot,
                   next_poll, checks, tex_screen, ret>>

\* trace_frame: the checkpoint at the instruction boundary; its signal, if any,
\* is returned unmodified and handled by trace().
CoreCheckpoint ==
    /\ phase = "check"
    /\ checks' = Min(checks + 1, FrameLen + 1)
    /\ cur' = NoInsn
    /\ LET sig == Checkpoint(cur.cpu, cur.pc, cur.acc, Now, bps, oneshot, next_poll)
       IN  IF sig = NoEvent
           THEN /\ phase' = "frame"
                /\ UNCHANGED <<paused, elapsed, event, command, flash_msgs, bps,
                               oneshot, next_poll, tex_screen, ret>>
           ELSE TraceErr(sig)
    /\ UNCHANGED screen

\* trace_frame: the core itself stops the unit of work with a diagnostic.
CoreBreak ==
    /\ phase = "frame"
    /\ screen < FrameLen
    /\ TraceErr(GenericBreak("assert"))
    /\ UNCHANGED <<screen, checks, cur>>

\* self.tex_screen.copy_from_buffer_mut(screen)
CopyFromBufferMut(tex, buf) == buf

\* trace_frame returns Ok(()) once the unit of work is complete; trace() copies
\* the frame into tex_screen and returns true.  The next unit of work starts
\* from the beginning of the buffers.
TraceOk ==
    /\ phase = "frame"
    /\ screen = FrameLen
    /\ tex_screen' = CopyFromBufferMut(tex_screen, screen)
    /\ ret' = "true"
    /\ screen' = 0
    /\ checks' = 0
    /\ phase' = "idle"
    /\ UNCHANGED <<paused, elapsed, event, command, flash_msgs, bps, oneshot,
                   next_poll, cur>>

\* ------------------------------------------------------------- wall clock
\* Time passes while the core runs and between the driver's calls.
Tick ==
    /\ phase \notin {"render", "panic"}
    /\ elapsed < MaxElapsed
    /\ elapsed' = Min(elapsed + TickMs, MaxElapsed)
    /\ UNCHANGED <<paused, event, command, flash_msgs, bps, oneshot, next_poll,
                   screen, checks, cur, tex_screen, ret, phase>>

\* ------------------------------------------------------ DebuggerUI::render
\* render_main: the space key toggles the run state.
PausedAfterKey(key, p) == IF key THEN ~p ELSE p
EventAfterKey(key, p, ev) == IF key /\ ~p THEN Paused ELSE ev

\* render_main: the Run button (shown while paused) or the Pause button.
PausedAfterButton(click, p) == IF click THEN ~p ELSE p
EventAfterButton(click, p, ev) == IF click /\ ~p THEN Paused ELSE ev

\* render_flash_msgs: the notices are drawn; they are short-lived, and the
\* model keeps a notice until the render pass that draws it.
RenderFlashMsgs(msgs) == <<>>

\* Debugger::render_main: the UI adds, removes, enables or disables a regular
\* breakpoint entry.
BpEdits(table) ==
    {table \cup {BpEntry(k[1], k[2], TRUE)} :
        k \in {k \in Cpus \X Addrs :
                k \notin BpKeys(table) /\ Cardinality(table) < MaxBps}}
        \cup {table \ {e} : e \in table}
        \cup {(table \ {e}) \cup {BpEntry(e.cpu, e.addr, ~e.enabled)} : e \in table}

\* What the user does in one render pass: nothing, or one edit of the
\* breakpoint list, or any of key, button and command.
RenderInput ==
    \/ /\ bps' \in BpEdits(bps)
       /\ command' = NoCommand
       /\ UNCHANGED <<paused, event>>
    \/ /\ bps' = bps
       /\ command' \in Commands \cup {NoCommand}
       /\ \E key \in BOOLEAN, click \in BOOLEAN :
            LET p1 == PausedAfterKey(key, paused)
                e1 == EventAfterKey(key, paused, event)
            IN  /\ paused' = PausedAfterButton(click, p1)
                /\ event' = EventAfterButton(click, p1, e1)

\* render(), from the start of the pass to the point where last_render is taken:
\* keys and buttons are read, the views are drawn and may issue one command,
\* the drawn UI is flushed.
RenderMain ==
    /\ phase = "idle"
    /\ RenderInput
    /\ flash_msgs' = RenderFlashMsgs(flash_msgs)
    /\ elapsed' = 0
    /\ ret' = "none"
    /\ phase' = "render"
    /\ UNCHANGED <<oneshot, next_poll, screen, checks, cur, tex_screen>>

\* A CpuStep that leaves the session Running.
PausedAfterCommand_StepRuns(cmd, p) ==
    CASE cmd.type = "Pause" -> cmd.flag
      [] cmd.type = "BreakpointOneShot" -> FALSE
      [] cmd.type = "CpuStep" -> FALSE
      [] OTHER -> p

\* BreakpointOneShot arming without resuming.
PausedAfterCommand_NoRun(cmd, p) ==
    CASE cmd.type = "Pause" -> cmd.flag
      [] cmd.type = "CpuStep" -> TRUE
      [] OTHER -> p

\* The effect of servicing the pending command on each field.
PausedAfterCommand(cmd, p) ==
    CASE cmd.type = "Pause" -> cmd.flag
      [] cmd.type = "BreakpointOneShot" -> FALSE
      [] cmd.type = "CpuStep" -> TRUE
      [] OTHER -> p

\* The one-shots disarmed by a Pause or CpuStep command as by a pausing signal.
OneshotAfterCommand_ClearedOnPause(cmd, shots) ==
    IF cmd.type = "BreakpointOneShot"
    THEN SetBreakpointOneshot(shots, cmd.cpu, cmd.addr)
    ELSE IF cmd.type \in {"Pause", "CpuStep"} THEN DisableBreakpointOneshot(shots)
    ELSE shots

OneshotAfterCommand(cmd, shots) ==
    IF cmd.type = "BreakpointOneShot"
    THEN SetBreakpointOneshot(shots, cmd.cpu, cmd.addr)
    ELSE shots

\* The event cleared after the command is serviced instead of before.
EventAfterStep_ClearedAfter(res) == NoEvent

\* The step's own signal recorded when it returns one.
EventAfterStep_Result(res) == IF res = NoEvent THEN Stepped ELSE res

EventAfterStep(res) == Stepped

\* The event left in place by the render pass.
EventCleared_Kept(ev) == ev

\* uictx.event = None
EventCleared(ev) == NoEvent

\* The command left pending after it was serviced.
CommandCleared_Kept(cmd) == cmd

\* uictx.command = None
CommandCleared(cmd) == NoCommand

\* render(), after last_render is taken: the event is cleared, the pending
\* command is serviced and cleared.
RenderService ==
    /\ phase = "render"
    /\ paused' = PausedAfterCommand(command, paused)
    /\ oneshot' = OneshotAfterCommand(command, oneshot)
    /\ IF command.type = "CpuStep"
       THEN \E res \in StepResults : event' = EventAfterStep(res)
       ELSE event' = EventCleared(event)
    /\ command' = CommandCleared(command)
    /\ phase' = "idle"
    /\ UNCHANGED <<elapsed, flash_msgs, bps, next_poll, screen, checks, cur,
                   tex_screen, ret>>

Next ==
    \/ TracePaused
    \/ TraceStart
    \/ CoreExec
    \/ CoreCheckpoint
    \/ CoreBreak
    \/ TraceUnimplemented
    \/ TraceOk
    \/ Tick
    \/ RenderMain
    \/ RenderService

Spec == Init /\ [][Next]_vars

\* ----------------------------------------- a free run towards a breakpoint
\* The session after the user has set one enabled breakpoint and pressed Run,
\* left alone from then on: the driver keeps calling trace() and render(), the
\* user gives no input, and the core raises nothing of its own, so that only
\* the poll deadline and the breakpoint interrupt the units of work.
LiveInit ==
    /\ paused = FALSE
    /\ elapsed = 0
    /\ event = NoEvent
    /\ command = NoCommand
    /\ flash_msgs = <<>>
    /\ \E c \in Cpus, a \in Addrs : bps = {BpEntry(c, a, TRUE)}
    /\ oneshot = {}
    /\ next_poll = 0
    /\ screen = 0
    /\ checks = 0
    /\ cur = NoInsn
    /\ tex_screen = 0
    /\ ret = "none"
    /\ phase = "idle"

\* An instruction that accesses no memory.
CoreExecQuiet == CoreExec /\ cur'.acc = NoAccess

\* The instruction stream reaches the breakpoint's (cpu, address).
CoreReachesBreakpoint == CoreExecQuiet /\ BpEntry(cur'.cpu, cur'.pc, TRUE) \in bps'

\* A render pass in which the user does nothing.
RenderQuiet ==
    /\ RenderMain
    /\ command' = NoCommand
    /\ UNCHANGED <<paused, event, bps>>

LiveNext ==
    \/ TracePaused
    \/ TraceStart
    \/ CoreExecQuiet
    \/ CoreCheckpoint
    \/ TraceOk
    \/ Tick
    \/ RenderQuiet
    \/ RenderService

\* The driver loop calls trace() again and again, a call of render() or of
\* trace_frame runs on to its return, and the core's instruction stream reaches
\* the breakpoint.
LiveSpec ==
    /\ LiveInit
    /\ [][LiveNext]_vars
    /\ SF_vars(TraceStart)
    /\ WF_vars(RenderService)
    /\ WF_vars(CoreCheckpoint)
    /\ WF_vars(TraceOk)
    /\ SF_vars(CoreReachesBreakpoint)

\* ======================================================== the properties
\* A step in which trace_frame returns Err(event) to trace().
TraceAborted ==
    \/ phase = "check" /\ phase' = "idle"
    \/ phase = "frame" /\ phase' = "idle" /\ screen < FrameLen

\* A step that evaluates the checkpoint of the instruction in `cur`.
CheckpointStep == phase = "check" /\ phase' # "check"

RegularMatch(i) == BpEntry(i.cpu, i.pc, TRUE) \in bps
OneshotMatch(i) == <<i.cpu, i.pc>> \in oneshot
WatchMatch(i) ==
    /\ i.acc.kind # "none"
    /\ <<i.cpu, i.acc.addr, i.acc.kind>> \in Watchpoints

\* C1: when the coordinator is Running and the core reaches the (cpu, addr) of an
\* enabled regular breakpoint entry, the run state becomes Paused, the current
\* event is Breakpoint(cpu, addr, _), and the entry is still in the table, enabled.
C1_BreakpointPausesAndStaysArmed ==
    [][(CheckpointStep /\ ~paused /\ RegularMatch(cur)) =>
            /\ paused'
            /\ event' = Breakpoint(cur.cpu, cur.pc)
            /\ BpEntry(cur.cpu, cur.pc, TRUE) \in bps']_vars

C1_Witness ==
    /\ phase = "idle"
    /\ paused
    /\ event.type = "Breakpoint"
    /\ BpEntry(event.cpu, event.addr, TRUE) \in bps

\* C2: whenever a frame invocation returns one of the five pausing signals, no
\* one-shot breakpoint is armed afterwards, whichever signal it was and whether
\* or not one was armed; and a run pauses with BreakpointOneShot only at an
\* address whose one-shot is armed, so not again once it was cleared.
C2_OneShotClearedByAnyPausingSignal ==
    [][/\ (TraceAborted /\ event'.type \in PausingTypes) => oneshot' = {}
       /\ (TraceAborted /\ event'.type = "BreakpointOneShot") =>
                <<event'.cpu, event'.addr>> \in oneshot]_vars

C2_Witness ==
    /\ phase = "idle"
    /\ paused
    /\ event.type = "BreakpointOneShot"
    /\ oneshot = {}

\* C3: a Poll result of a frame invocation leaves the run state Running and
\* leaves the one-shot breakpoints and the breakpoint table as they were.
C3_PollChangesNothing ==
    [][(TraceAborted /\ event' = Poll) =>
            /\ ~paused /\ ~paused'
            /\ oneshot' = oneshot
            /\ bps' = bps]_vars

C3_Witness ==
    /\ phase = "idle"
    /\ event = Poll
    /\ ~paused
    /\ oneshot # {}

\* C4: servicing a CpuStep command ends with run state Paused and current event
\* Stepped, whatever the run state was and whatever the single step returned.
C4_CpuStepEndsPausedStepped ==
    [][(phase = "render" /\ command.type = "CpuStep") =>
            /\ paused'
            /\ event' = Stepped
            /\ phase' = "idle"]_vars

C4_Witness ==
    /\ phase = "idle"
    /\ paused
    /\ event = Stepped

\* C5: across the invocations of one unit of work, all made with the caller's
\* buffers, every instruction is executed and checkpointed exactly once: the
\* checkpoint calls made so far equal the instructions the buffers hold, and a
\* unit of work completes after exactly as many checkpoint calls as an
\* uninterrupted run makes.
C5_ResumptionCountsCheckpointsOnce ==
    /\ checks + (IF phase = "check" THEN 1 ELSE 0) = screen
    /\ (phase = "frame" /\ screen = FrameLen) => checks = FrameLen

C5_Witness ==
    /\ phase = "frame"
    /\ screen = FrameLen
    /\ checks = FrameLen
    /\ event = Poll

\* C6: in a free run with an enabled breakpoint at (cpu, A) that the instruction
\* stream reaches, however often the unit of work aborts with Poll on the way,
\* the coordinator eventually is Paused with the Breakpoint event of (cpu, A).
C6_BreakpointNotLostAcrossPoll ==
    <>(/\ paused
       /\ event.type = "Breakpoint"
       /\ BpEntry(event.cpu, event.addr, TRUE) \in bps)

\* The unit of work aborted with Poll, was re-invoked and has reached the
\* breakpoint.
C6_Witness ==
    /\ phase = "check"
    /\ event = Poll
    /\ checks >= 1
    /\ RegularMatch(cur)

\* C7: at a checkpoint at or past the poll deadline, a matching enabled
\* breakpoint yields the breakpoint signal and a matching watchpoint access
\* yields a breakpoint or watchpoint signal, never Poll.
C7_BreakpointAndWatchpointBeforePoll ==
    [][(CheckpointStep /\ Now >= next_poll) =>
            /\ RegularMatch(cur) => event' = Breakpoint(cur.cpu, cur.pc)
            /\ (OneshotMatch(cur) /\ ~RegularMatch(cur)) =>
                    event' = BreakpointOneShot(cur.cpu, cur.pc)
            /\ (WatchMatch(cur) /\ ~RegularMatch(cur) /\ ~OneshotMatch(cur)) =>
                    /\ event'.type \in {"WatchpointRead", "WatchpointWrite"}
                    /\ event'.cpu = cur.cpu
                    /\ event'.addr = cur.acc.addr]_vars

C7_Witness ==
    /\ phase = "check"
    /\ Now = next_poll
    /\ RegularMatch(cur)

\* C8: with no matching watchpoint access and the poll deadline not reached, the
\* unit of work aborts at a checkpoint exactly when a breakpoint is armed at the
\* instruction's (cpu, pc), and at no other checkpoint; the signal is Breakpoint
\* for an enabled regular entry and BreakpointOneShot for a one-shot.
C8_AbortsExactlyAtTheBreakpoint ==
    [][(CheckpointStep /\ ~WatchMatch(cur) /\ Now < next_poll) =>
            IF RegularMatch(cur)
            THEN phase' = "idle" /\ event' = Breakpoint(cur.cpu, cur.pc)
            ELSE IF OneshotMatch(cur)
            THEN phase' = "idle" /\ event' = BreakpointOneShot(cur.cpu, cur.pc)
            ELSE phase' = "frame" /\ event' = event /\ paused' = paused]_vars

C8_Witness ==
    /\ phase = "idle"
    /\ event.type = "BreakpointOneShot"
    /\ checks = FrameLen
    /\ Now < next_poll

OneshotsOf(shots, c) == {e \in shots : e[1] = c}

C10_OneOneShotPerCpu ==
    /\ [](\A c \in Cpus : Cardinality(OneshotsOf(oneshot, c)) <= 1)
    /\ [][(phase = "render" /\ command.type = "BreakpointOneShot") =>
            /\ OneshotsOf(oneshot', command.cpu) = {<<command.cpu, command.addr>>}
            /\ \A c \in Cpus \ {command.cpu} :
                    OneshotsOf(oneshot', c) = OneshotsOf(oneshot, c)
            /\ ~paused']_vars

C10_Witness ==
    /\ phase = "idle"
    /\ ~paused
    /\ Cardinality(oneshot) = Cardinality(Cpus)

\* C11: servicing the Pause(p) command sets the run state to Paused when p is
\* true and to Running when p is false, and when Pause(true) is serviced while
\* Running, the current event afterwards is the synthesized Paused event.
C11_PauseCommandSynthesizesPaused ==
    [][(phase = "render" /\ command.type = "Pause") =>
            /\ paused' = command.flag
            /\ (command.flag /\ ~paused) => event' = Paused]_vars

\* C12: the coordinator starts Paused with the Paused event as the current event
\* and no pending command; a frame invocation starts, and runs, only while the
\* run state is Running, and the run state leaves Paused only inside a render
\* pass (a command or a UI action), so no frame invocation precedes one.
C12_StartsPausedNoFrameBeforeRun ==
    /\ (paused = TRUE /\ event = Paused /\ command = NoCommand /\ phase = "idle")
    /\ [][(phase' \in {"frame", "check"}) => ~paused]_vars
    /\ [][(paused /\ ~paused') => (phase = "render" \/ phase' = "render")]_vars

\* The first frame invocation of the session, after a render pass set Running.
C12_Witness ==
    /\ phase = "frame"
    /\ ~paused
    /\ event = NoEvent
    /\ screen = 0
    /\ tex_screen = 0

\* C13: whatever signal a frame invocation returns, the synthesized variants
\* Paused and Stepped included, trace() handles it and returns normally: the
\* coordinator is never left crashed.
C13_EverySignalHandled ==
    [][(phase \in {"frame", "check"}) => phase' \in {"frame", "check", "idle"}]_vars

\* The signal the checkpoint of the instruction in `cur` raises, if any.
CheckpointSignal ==
    Checkpoint(cur.cpu, cur.pc, cur.acc, Now, bps, oneshot, next_poll)

\* C14: each of the five pausing signals returned by a frame invocation moves
\* the coordinator from Running to Paused and becomes the current event with
\* its payload (the CPU and address of the instruction or of the access, the
\* core's message); whatever signal the checkpoint raises is the current event
\* afterwards, unmodified.
C14_PausingSignalRecordedUnmodified ==
    [][/\ (CheckpointStep /\ CheckpointSignal # NoEvent) => event' = CheckpointSignal
       /\ (TraceAborted /\ event'.type \in PausingTypes) =>
            /\ ~paused /\ paused'
            /\ event'.type \in {"Breakpoint", "BreakpointOneShot"} =>
                    event'.cpu = cur.cpu /\ event'.addr = cur.pc
            /\ event'.type \in {"WatchpointRead", "WatchpointWrite"} =>
                    event'.cpu = cur.cpu /\ event'.addr = cur.acc.addr
            /\ event'.type = "GenericBreak" => event'.msg = "assert"]_vars

C14_Witness ==
    /\ phase = "idle"
    /\ paused
    /\ event = WatchpointWrite("CPU1", 0)
    /\ ret = "false"

\* The signals whose arm enqueues a notice.
NoticeTypes == {"WatchpointRead", "WatchpointWrite", "GenericBreak"}

\* C15: a frame invocation that returns WatchpointRead, WatchpointWrite or
\* GenericBreak enqueues exactly one notice, naming the CPU or carrying the
\* core's message, behind the notices already there; one that returns
\* Breakpoint, BreakpointOneShot or Poll, one that completes, and every other
\* step of trace() leave the notices as they were.
C15_NoticeExactlyOnWatchpointOrBreak ==
    [][/\ (TraceAborted /\ event'.type \in NoticeTypes) =>
            /\ Len(flash_msgs') = Len(flash_msgs) + 1
            /\ SubSeq(flash_msgs', 1, Len(flash_msgs)) = flash_msgs
            /\ flash_msgs'[Len(flash_msgs')][2] =
                    (IF event'.type = "GenericBreak" THEN event'.msg ELSE event'.cpu)
       /\ (phase' # "render" /\ ~(TraceAborted /\ event'.type \in NoticeTypes)) =>
            flash_msgs' = flash_msgs]_vars

C15_Witness ==
    /\ phase = "idle"
    /\ event = WatchpointRead("CPU0", 1)
    /\ Len(flash_msgs) = 1
    /\ flash_msgs[1][2] = "CPU0"

\* C16: a call of trace() while the run state is Paused does not invoke the
\* unit of work and returns false; it leaves the run state, the current event,
\* the pending command, the breakpoint table and one-shots, the poll deadline,
\* the notices and the frame buffers (a unit of work in flight included) as
\* they were, and a unit of work is never running while the state is Paused.
C16_PausedTraceDoesNothing ==
    /\ [][(phase = "idle" /\ paused /\ phase' # "render") =>
            /\ phase' = "idle"
            /\ ret # "true" /\ ret' \in {ret, "false"}
            /\ UNCHANGED <<paused, event, command, flash_msgs, bps, oneshot,
                           next_poll, screen, checks, cur, tex_screen>>]_vars
    /\ []((phase \in {"frame", "check"}) => ~paused)

\* Paused by the user with a unit of work in flight; trace() has idled once.
C16_Witness ==
    /\ phase = "idle"
    /\ paused
    /\ ret = "false"
    /\ screen = 1
    /\ event = NoEvent
    /\ elapsed = IdleMs

\* A step in which trace_frame returns Ok(()) to trace().
TraceCompleted == phase = "frame" /\ phase' = "idle" /\ screen = FrameLen

\* C17: trace() returns true exactly when the frame invocation of that call
\* completed, and false when it aborted or when no invocation was made; on
\* completion the frame of the buffers is in tex_screen, the run state is and
\* stays Running, and the current event, the one-shot breakpoints and the
\* breakpoint table are as before, so an armed one-shot stays armed.
C17_TrueIffFrameCompleted ==
    [][/\ (ret' = "true" /\ ret # "true") => TraceCompleted
       /\ TraceAborted => ret' = "false"
       /\ (phase = "idle" /\ phase' = "idle" /\ ret' # ret) => ret' = "false"
       /\ TraceCompleted =>
            /\ ret' = "true"
            /\ tex_screen' = screen
            /\ ~paused /\ ~paused'
            /\ event' = event
            /\ oneshot' = oneshot
            /\ bps' = bps]_vars

\* A frame completed with a one-shot armed.
C17_Witness ==
    /\ phase = "idle"
    /\ ret = "true"
    /\ tex_screen = FrameLen
    /\ ~paused
    /\ oneshot # {}

\* C18: the command channel holds at most one command; the render pass that
\* finds one services it and leaves the slot empty, and so does a pass that
\* finds none, so outside a render pass the slot is always empty: no command
\* is serviced twice or carried over to a later pass.
C18_CommandSlotDrainedEveryPass ==
    /\ [](command \in Commands \cup {NoCommand})
    /\ []((phase # "render") => command = NoCommand)
    /\ [][(phase = "render") => (command' = NoCommand /\ phase' = "idle")]_vars

\* Right after the pass that serviced a BreakpointOneShot command.
C18_Witness ==
    /\ phase = "idle"
    /\ command = NoCommand
    /\ oneshot # {}
    /\ ~paused
    /\ ret = "none"
    /\ elapsed = 0

\* C19 as stated: the event is cleared at the start of the render pass, so the
\* views are drawn, and the UI issues its command, with no current event but
\* the Paused event this pass's own pause key or button may have synthesized.
C19_EventClearedBeforeDraw ==
    [][(phase = "idle" /\ phase' = "render") =>
            (event' = NoEvent \/ event' = Paused)]_vars

\* C19, amended: in every render pass the views are drawn, and the UI issues
\* its command, with the current event the pass found (or the Paused event the
\* pause key or button synthesized in this pass); the event is cleared after
\* the drawn UI is flushed, before the pending command is serviced, so that
\* after the pass there is no current event, or Stepped after a CpuStep.
C19_EventClearedAfterDraw ==
    [][/\ (phase = "idle" /\ phase' = "render") =>
            (event' = event \/ event' = Paused)
       /\ (phase = "render") =>
            event' = (IF command.type = "CpuStep" THEN Stepped ELSE NoEvent)]_vars

\* The views have been drawn with the Breakpoint event and a command is pending.
C19_Witness ==
    /\ phase = "render"
    /\ event.type = "Breakpoint"
    /\ command.type = "Pause"

\* C20 as stated: a pausing event recorded by trace() is the current event
\* until the next render pass has drawn the UI, whatever happens in between
\* and in that pass.
C20_PausingEventDrawnByNextPass ==
    [][(phase = "idle" /\ event.type \in PausingTypes) =>
            /\ paused
            /\ phase' \in {"idle", "render"}
            /\ event' = event]_vars

\* C20, amended: after a pausing signal the state is Paused, so that no call of
\* trace() before the next render pass overwrites the recorded event and
\* nothing clears it; that pass draws the UI with it, unless the user in that
\* very pass resumes with the space key and pauses again with the Pause
\* button, whose synthesized Paused event then replaces it.
C20_PausingEventKeptUntilDrawn ==
    [][(phase = "idle" /\ event.type \in PausingTypes) =>
            /\ paused
            /\ (phase' = "idle") => (event' = event /\ paused')
            /\ (phase' # "idle") =>
                    /\ phase' = "render"
                    /\ event' = event \/ (event' = Paused /\ paused')]_vars

\* The UI has been drawn with the GenericBreak event recorded by trace().
C20_Witness ==
    /\ phase = "render"
    /\ paused
    /\ event = GenericBreak("assert")

\* C21 as stated: the Stepped event synthesized by CpuStep survives the pass
\* that produced it and is the current event until the following render pass
\* has drawn the UI, whatever happens in between and in that pass.
C21_SteppedDrawnByNextPass ==
    [][/\ (phase = "render" /\ command.type = "CpuStep") => event' = Stepped
       /\ (phase = "idle" /\ event = Stepped) =>
            /\ paused
            /\ phase' \in {"idle", "render"}
            /\ event' = event]_vars

\* C21, amended: the event is cleared before the pending command is serviced,
\* so the Stepped event synthesized by CpuStep is the current event after the
\* pass that produced it; the state is then Paused, no call of trace() touches
\* the event, and the following render pass draws the UI with it, unless the
\* user in that very pass resumes with the space key and pauses again with
\* the Pause button, whose synthesized Paused event then replaces it.
C21_SteppedKeptUntilDrawn ==
    [][/\ (phase = "render" /\ command.type = "CpuStep") => event' = Stepped
       /\ (phase = "idle" /\ event = Stepped) =>
            /\ paused
            /\ (phase' = "idle") => (event' = event /\ paused')
            /\ (phase' # "idle") =>
                    /\ phase' = "render"
                    /\ event' = event \/ (event' = Paused /\ paused')]_vars

\* The pass after the step has drawn the UI with the Stepped event.
C21_Witness ==
    /\ phase = "render"
    /\ event = Stepped

\* C22: servicing a Pause or CpuStep command, and pausing or resuming with the
\* key or the button, leave the one-shot breakpoints and the breakpoint table
\* as they were, and so does every call of trace() while Paused; a CPU's armed
\* one-shot is disarmed only by a frame invocation returning one of the five
\* pausing signals.
C22_UserPauseKeepsOneShot ==
    [][/\ (phase = "render" /\ command.type \in {"Pause", "CpuStep"}) =>
            (oneshot' = oneshot /\ bps' = bps)
       /\ (phase = "idle" /\ phase' = "render") =>
            (oneshot' = oneshot /\ (paused' # paused => bps' = bps))
       /\ (phase = "idle" /\ phase' = "idle" /\ paused) => oneshot' = oneshot
       /\ \A c \in Cpus :
            (OneshotsOf(oneshot, c) # {} /\ OneshotsOf(oneshot', c) = {}) =>
                (TraceAborted /\ event'.type \in PausingTypes)]_vars

\* Paused by a CpuStep command with a one-shot still armed.
C22_Witness ==
    /\ phase = "idle"
    /\ paused
    /\ event = Stepped
    /\ oneshot # {}

\* C23: no step of trace(), of the unit of work or of the clock moves the run
\* state from Paused to Running; the state becomes Running only inside a render
\* pass, by the key or button while the UI is built or by servicing a
\* Pause(false) or BreakpointOneShot command, so a paused session stays Paused
\* across any number of trace() calls until a render pass resumes it.
C23_RunningOnlyFromRenderPass ==
    [][/\ (paused /\ phase # "render" /\ phase' # "render") => paused'
       /\ (paused /\ ~paused') =>
            \/ phase = "idle" /\ phase' = "render"
            \/ /\ phase = "render"
               /\ command = CmdPause(FALSE) \/ command.type = "BreakpointOneShot"]_vars

\* Paused by a signal; trace() has been called since and has idled.
C23_Witness ==
    /\ phase = "idle"
    /\ paused
    /\ event.type = "BreakpointOneShot"
    /\ ret = "false"
    /\ elapsed = IdleMs

====
